---- MODULE Spec2Model ----
(***************************************************************************)
(* Model of src/lib.rs of lenovo-legion-hid: the keyboard lighting         *)
(* controller (Keyboard, LightingState) and the device acquisition         *)
(* function get_keyboard.  Bytes are the integers 0..255; the 33-byte      *)
(* payload [u8; 33] is the sequence payload[1..33], so byte k of the       *)
(* source is element k + 1 here.                                           *)
(***************************************************************************)
EXTENDS Integers, Sequences, FiniteSets, TLC

VARIABLES
    target_os,      \* the cfg(target_os) the crate was built for
    device_list,    \* what api.device_list() enumerates, in order
    pc,             \* "start" | "ready" | "failed" | "panicked"
    result,         \* what get_keyboard returned: "none" | "Ok" | "Err(...)"
    panic,          \* the panic message prefix, "none" when no panic happened
    keyboard_hid,   \* Keyboard.keyboard_hid: index of the opened device, 0 = none
    open_calls,     \* the indices of device_list that open_device was called on
    current_state,  \* Keyboard.current_state
    nreports,       \* number of send_feature_report calls made so far
    last_report,    \* the buffer of the latest send_feature_report call
    write_result,   \* outcome of the latest send_feature_report: "none" | "Ok" | "Err"
    call            \* the latest public call and its argument

vars == <<target_os, device_list, pc, result, panic, keyboard_hid, open_calls,
          current_state, nreports, last_report, write_result, call>>

----------------------------------------------------------------------------
(* Bounds of the model *)

MaxDevices == 2
MaxReports == 4
MaxReportsU8 == 3

(* Input domains *)

U8 == 0..255

U8Samples == {0, 1, 2, 3, 4, 5, 128, 255}

Ramp(base, step) == [i \in 1..12 |-> (base + step * i) % 256]

ColorInputs == {Ramp(0, 0), Ramp(0, 1), Ramp(255, 0), Ramp(250, 1)}

ColorInputsU8 == {Ramp(0, 1), Ramp(255, 0)}

----------------------------------------------------------------------------
(* Constants of the source *)

LINUX_2021 == <<1165, 51557, 0, 0>>
LINUX_2020 == <<1165, 51541, 0, 0>>
WINDOWS_2021 == <<1165, 51557, 65417, 204>>
WINDOWS_2020 == <<1165, 51541, 65417, 204>>

DEVICE_INFO_2021 == IF target_os = "linux" THEN LINUX_2021 ELSE WINDOWS_2021

DEVICE_INFO_2020 == IF target_os = "linux" THEN LINUX_2020 ELSE WINDOWS_2020

SPEED_RANGE == [start |-> 1, end |-> 4]

BRIGHTNESS_RANGE == [start |-> 1, end |-> 2]

(* RangeInclusive<u8>::contains *)
RangeContains(range, v) == range.start <= v /\ v <= range.end

(* u8::clamp(self, min, max) *)
ClampNoUpper(v, min, max) == IF v < min THEN min ELSE v

ClampNoLower(v, min, max) == IF v > max THEN max ELSE v

Clamp(v, min, max) == IF v < min THEN min ELSE IF v > max THEN max ELSE v

(* Some device that is not a supported keyboard *)
FOREIGN_DEVICE == <<1133, 50475, 1, 6>>

DeviceInfos == {LINUX_2021, LINUX_2020, WINDOWS_2021, FOREIGN_DEVICE}

RECURSIVE SeqsUpTo(_, _)
SeqsUpTo(S, n) ==
    IF n = 0 THEN {<<>>}
    ELSE LET shorter == SeqsUpTo(S, n - 1)
         IN shorter \cup {Append(s, x) : s \in {t \in shorter : Len(t) = n - 1}, x \in S}

DeviceLists == SeqsUpTo(DeviceInfos, MaxDevices)

(* No Keyboard has been constructed: the fields hold no lighting state *)
NoState == [speed |-> 0, brightness |-> 0, rgb_values |-> <<>>]

----------------------------------------------------------------------------
(* Keyboard::build_payload *)

BuildPayloadShifted(state) ==
    IF ~RangeContains(SPEED_RANGE, state.speed)
    THEN [ok |-> FALSE, err |-> "Speed is outside valid range (1-4)"]
    ELSE IF ~RangeContains(BRIGHTNESS_RANGE, state.brightness)
    THEN [ok |-> FALSE, err |-> "Brightness is outside valid range (1-2)"]
    ELSE LET zeroed == [i \in 1..33 |-> 0]
             header == [zeroed EXCEPT ![1] = 204, ![2] = 22, ![3] = 1,
                                      ![4] = state.speed, ![5] = state.brightness]
         IN [ok |-> TRUE,
             payload |-> [i \in 1..33 |->
                            IF 7 <= i /\ i < 7 + 12 THEN state.rgb_values[i - 6]
                            ELSE header[i]]]

build_payload(state) ==
    IF ~RangeContains(SPEED_RANGE, state.speed)
    THEN [ok |-> FALSE, err |-> "Speed is outside valid range (1-4)"]
    ELSE IF ~RangeContains(BRIGHTNESS_RANGE, state.brightness)
    THEN [ok |-> FALSE, err |-> "Brightness is outside valid range (1-2)"]
    ELSE LET zeroed == [i \in 1..33 |-> 0]
             header == [zeroed EXCEPT ![1] = 204, ![2] = 22, ![3] = 1,
                                      ![4] = state.speed, ![5] = state.brightness]
         IN [ok |-> TRUE,
             payload |-> [i \in 1..33 |->
                            IF 6 <= i /\ i < 6 + 12 THEN state.rgb_values[i - 5]
                            ELSE header[i]]]

(* Keyboard::refresh on a Keyboard whose current_state is `state`, when the  *)
(* transport answers the write with write_ok.  `sent` lists the buffers      *)
(* handed to send_feature_report, `state` is current_state afterwards.       *)

RefreshRetry(state, write_ok) ==
    LET built == build_payload(state)
    IN IF ~built.ok
       THEN [state |-> state, panic |-> "Payload build error", sent |-> <<>>,
             write |-> "none"]
       ELSE IF write_ok
       THEN [state |-> state, panic |-> "none", sent |-> <<built.payload>>,
             write |-> "Ok"]
       ELSE [state |-> state, panic |-> "Sending feature report failed",
             sent |-> <<built.payload, built.payload>>, write |-> "Err"]

RefreshSwallow(state, write_ok) ==
    LET built == build_payload(state)
    IN IF ~built.ok
       THEN [state |-> state, panic |-> "Payload build error", sent |-> <<>>,
             write |-> "none"]
       ELSE [state |-> state, panic |-> "none", sent |-> <<built.payload>>,
             write |-> IF write_ok THEN "Ok" ELSE "Err"]

refresh(state, write_ok) ==
    LET built == build_payload(state)
    IN IF ~built.ok
       THEN [state |-> state, panic |-> "Payload build error", sent |-> <<>>,
             write |-> "none"]
       ELSE IF write_ok
       THEN [state |-> state, panic |-> "none", sent |-> <<built.payload>>,
             write |-> "Ok"]
       ELSE [state |-> state, panic |-> "Sending feature report failed",
             sent |-> <<built.payload>>, write |-> "Err"]

(* The state updates of the setters, before their refresh *)

StoreSpeedResetsBrightness(state, v) ==
    [state EXCEPT !.speed = Clamp(v, SPEED_RANGE.start, SPEED_RANGE.end),
                  !.brightness = BRIGHTNESS_RANGE.start]

StoreSpeed(state, v) ==
    [state EXCEPT !.speed = Clamp(v, SPEED_RANGE.start, SPEED_RANGE.end)]

StoreBrightnessUnclamped(state, v) == [state EXCEPT !.brightness = v]

StoreBrightness(state, v) ==
    [state EXCEPT !.brightness = Clamp(v, BRIGHTNESS_RANGE.start, BRIGHTNESS_RANGE.end)]

StoreColorsReversed(state, new_values) ==
    [state EXCEPT !.rgb_values = [i \in 1..12 |-> new_values[13 - i]]]

StoreColors(state, new_values) == [state EXCEPT !.rgb_values = new_values]

(* What a call that ran refresh leaves behind *)
AfterRefresh(c, r) ==
    /\ call' = c
    /\ current_state' = r.state
    /\ panic' = r.panic
    /\ pc' = IF r.panic = "none" THEN "ready" ELSE "panicked"
    /\ nreports' = nreports + Len(r.sent)
    /\ last_report' = IF r.sent = <<>> THEN last_report ELSE r.sent[Len(r.sent)]
    /\ write_result' = r.write

----------------------------------------------------------------------------
(* get_keyboard *)

IsKeyboard(d) == d = DEVICE_INFO_2021 \/ d = DEVICE_INFO_2020

(* Iterator::find over device_list: index of the first match from i on, 0 if none *)
RECURSIVE FindLast(_, _)
FindLast(list, i) ==
    IF i > Len(list) THEN 0
    ELSE LET later == FindLast(list, i + 1)
         IN IF later # 0 THEN later ELSE IF IsKeyboard(list[i]) THEN i ELSE 0

RECURSIVE Find(_, _)
Find(list, i) ==
    IF i > Len(list) THEN 0
    ELSE IF IsKeyboard(list[i]) THEN i
    ELSE Find(list, i + 1)

DefaultState == [speed |-> 1, brightness |-> 1, rgb_values |-> [i \in 1..12 |-> 0]]

GetKeyboardFails(err, opens) ==
    /\ call' = [op |-> "get_keyboard"]
    /\ pc' = "failed"
    /\ result' = err
    /\ open_calls' = opens
    /\ UNCHANGED <<target_os, device_list, panic, keyboard_hid, current_state,
                   nreports, last_report, write_result>>

get_keyboard(init_ok, open_ok, write_ok) ==
    /\ pc = "start"
    /\ IF ~init_ok
       THEN GetKeyboardFails("Err(Hid)", <<>>)
       ELSE LET info == Find(device_list, 1)
            IN IF info = 0
               THEN GetKeyboardFails("Err(DeviceNotFound)", <<>>)
               ELSE IF ~open_ok
               THEN GetKeyboardFails("Err(Hid)", <<info>>)
               ELSE LET r == refresh(DefaultState, write_ok)
                    IN /\ AfterRefresh([op |-> "get_keyboard"], r)
                       /\ open_calls' = <<info>>
                       /\ keyboard_hid' = info
                       /\ result' = IF r.panic = "none" THEN "Ok" ELSE "none"
                       /\ UNCHANGED <<target_os, device_list>>

(* The setters *)

set_speed(speed, write_ok, cap) ==
    /\ pc = "ready"
    /\ nreports < cap
    /\ AfterRefresh([op |-> "set_speed", speed |-> speed],
                    refresh(StoreSpeed(current_state, speed), write_ok))
    /\ UNCHANGED <<target_os, device_list, result, keyboard_hid, open_calls>>

set_brightness(brightness, write_ok, cap) ==
    /\ pc = "ready"
    /\ nreports < cap
    /\ AfterRefresh([op |-> "set_brightness", brightness |-> brightness],
                    refresh(StoreBrightness(current_state, brightness), write_ok))
    /\ UNCHANGED <<target_os, device_list, result, keyboard_hid, open_calls>>

set_colors_to(new_values, write_ok, cap) ==
    /\ pc = "ready"
    /\ nreports < cap
    /\ AfterRefresh([op |-> "set_colors_to", new_values |-> new_values],
                    refresh(StoreColors(current_state, new_values), write_ok))
    /\ UNCHANGED <<target_os, device_list, result, keyboard_hid, open_calls>>

----------------------------------------------------------------------------
(* The program on any attached devices, the setters called with sample bytes *)

InitProgram ==
    /\ pc = "start"
    /\ result = "none"
    /\ panic = "none"
    /\ keyboard_hid = 0
    /\ open_calls = <<>>
    /\ current_state = NoState
    /\ nreports = 0
    /\ last_report = <<>>
    /\ write_result = "none"
    /\ call = [op |-> "none"]

Init ==
    /\ target_os \in {"linux", "windows"}
    /\ device_list \in DeviceLists
    /\ InitProgram

GetKeyboard == \E init_ok, open_ok, write_ok \in BOOLEAN : get_keyboard(init_ok, open_ok, write_ok)

SetSpeed == \E v \in U8Samples, write_ok \in BOOLEAN : set_speed(v, write_ok, MaxReports)

SetBrightness == \E v \in U8Samples, write_ok \in BOOLEAN : set_brightness(v, write_ok, MaxReports)

SetColorsTo == \E c \in ColorInputs, write_ok \in BOOLEAN : set_colors_to(c, write_ok, MaxReports)

Next == GetKeyboard \/ SetSpeed \/ SetBrightness \/ SetColorsTo

Spec == Init /\ [][Next]_vars

(* The program on one keyboard behind a foreign device, the setters called  *)
(* with every u8                                                            *)

InitU8 ==
    /\ target_os = "linux"
    /\ device_list = <<FOREIGN_DEVICE, LINUX_2020>>
    /\ InitProgram

SetSpeedU8 == \E v \in U8, write_ok \in BOOLEAN : set_speed(v, write_ok, MaxReportsU8)

SetBrightnessU8 == \E v \in U8, write_ok \in BOOLEAN : set_brightness(v, write_ok, MaxReportsU8)

SetColorsToU8 == \E c \in ColorInputsU8, write_ok \in BOOLEAN : set_colors_to(c, write_ok, MaxReportsU8)

NextU8 == GetKeyboard \/ SetSpeedU8 \/ SetBrightnessU8 \/ SetColorsToU8

SpecU8 == InitU8 /\ [][NextU8]_vars

----------------------------------------------------------------------------
(* The properties *)

Setters == {"set_speed", "set_brightness", "set_colors_to"}

Constructed == pc \in {"ready", "panicked"}

(* The wire layout, written out byte by byte *)
Padding16 == <<0, 0, 0, 0, 0, 0, 0, 0, 0, 0, 0, 0, 0, 0, 0, 0>>

Encoding(state) ==
    <<204, 22, 1, state.speed, state.brightness>> \o state.rgb_values \o Padding16

(* C1: for every lighting state with speed in 1..4 and brightness in 1..2,  *)
(* build_payload succeeds with a buffer of exactly 33 bytes: byte 0 = 0xCC, *)
(* byte 1 = 0x16, byte 2 = 0x01, byte 3 = speed, byte 4 = brightness, bytes *)
(* 5..16 = the 12 rgb_values in order, bytes 17..32 = 0.                    *)
C1_PayloadLayout ==
    (/\ Constructed
     /\ current_state.speed \in 1..4
     /\ current_state.brightness \in 1..2)
    => LET built == build_payload(current_state)
       IN /\ built.ok
          /\ DOMAIN built.payload = 1..33
          /\ built.payload[1] = 204
          /\ built.payload[2] = 22
          /\ built.payload[3] = 1
          /\ built.payload[4] = current_state.speed
          /\ built.payload[5] = current_state.brightness
          /\ \A k \in 1..12 : built.payload[5 + k] = current_state.rgb_values[k]
          /\ \A i \in 18..33 : built.payload[i] = 0

C1_Witness ==
    /\ current_state = [speed |-> 3, brightness |-> 2,
                        rgb_values |-> <<1, 2, 3, 4, 5, 6, 7, 8, 9, 10, 11, 12>>]
    /\ write_result = "Ok"
    /\ last_report = <<204, 22, 1, 3, 2, 1, 2, 3, 4, 5, 6, 7, 8, 9, 10, 11, 12,
                       0, 0, 0, 0, 0, 0, 0, 0, 0, 0, 0, 0, 0, 0, 0, 0>>

(* C2: once get_keyboard has constructed the Keyboard, after any setter     *)
(* calls with any u8 arguments the stored speed is in 1..4 and the stored   *)
(* brightness in 1..2, build_payload's validation has never failed, and the *)
(* report written carries in-domain speed and brightness bytes.             *)
C2_InDomainWhenTransmitted ==
    Constructed =>
        /\ current_state.speed \in 1..4
        /\ current_state.brightness \in 1..2
        /\ panic # "Payload build error"
        /\ nreports >= 1
        /\ last_report[4] \in 1..4
        /\ last_report[5] \in 1..2

C2_Witness ==
    /\ call = [op |-> "set_speed", speed |-> 255]
    /\ nreports = 3
    /\ write_result = "Ok"
    /\ current_state.brightness = 2
    /\ last_report[4] = 4
    /\ last_report[5] = 2

(* C3: for every u8 v, set_speed(v) stores clamp(v, 1, 4): 1 for v below 1, *)
(* 4 for v above 4, v itself otherwise; no v is rejected.                   *)
C3_SetSpeedClamps ==
    call.op = "set_speed" =>
        /\ current_state.speed =
              (IF call.speed < 1 THEN 1 ELSE IF call.speed > 4 THEN 4 ELSE call.speed)
        /\ write_result \in {"Ok", "Err"}

C3_Witness ==
    /\ call = [op |-> "set_speed", speed |-> 0]
    /\ current_state.speed = 1
    /\ nreports = 3
    /\ last_report[4] = 1

(* C4: for every u8 v, set_brightness(v) stores clamp(v, 1, 2): 1 for v = 0, *)
(* 2 for v of 3 or more, v itself for 1 and 2; no v is rejected.            *)
C4_SetBrightnessClamps ==
    call.op = "set_brightness" =>
        /\ current_state.brightness =
              (IF call.brightness = 0 THEN 1
               ELSE IF call.brightness >= 3 THEN 2 ELSE call.brightness)
        /\ write_result \in {"Ok", "Err"}

C4_Witness ==
    /\ call = [op |-> "set_brightness", brightness |-> 3]
    /\ current_state.brightness = 2
    /\ last_report[5] = 2

(* C5: set_colors_to replaces rgb_values with exactly the 12 bytes given,   *)
(* in the same order, whatever their values.                                *)
C5_SetColorsVerbatim ==
    call.op = "set_colors_to" =>
        /\ Len(current_state.rgb_values) = 12
        /\ \A i \in 1..12 : current_state.rgb_values[i] = call.new_values[i]

C5_Witness ==
    /\ call.op = "set_colors_to"
    /\ current_state.rgb_values = <<251, 252, 253, 254, 255, 0, 1, 2, 3, 4, 5, 6>>
    /\ write_result = "Ok"

(* C6: get_keyboard opens the first device in enumeration order whose tuple *)
(* equals the 2021 or the 2020 identity, and only that one; when no         *)
(* enumerated device matches it fails (DeviceNotFound, unless the transport *)
(* did not even initialise) without any open call or report write.          *)
Matching ==
    {i \in 1..Len(device_list) :
        device_list[i] = DEVICE_INFO_2021 \/ device_list[i] = DEVICE_INFO_2020}

C6_FirstMatchOpened ==
    call.op # "none" =>
        /\ Len(open_calls) <= 1
        /\ open_calls # <<>> =>
              /\ open_calls[1] \in Matching
              /\ \A j \in Matching : open_calls[1] <= j
        /\ Constructed => open_calls = <<keyboard_hid>>
        /\ result = "Err(DeviceNotFound)" => Matching = {}
        /\ Matching = {} =>
              /\ result \in {"Err(DeviceNotFound)", "Err(Hid)"}
              /\ open_calls = <<>>
              /\ nreports = 0

C6_Witness ==
    /\ target_os = "linux"
    /\ device_list = <<LINUX_2020, LINUX_2021>>
    /\ result = "Ok"
    /\ open_calls = <<1>>
    /\ keyboard_hid = 1

(* C7: every failure during device acquisition, a failed initial report     *)
(* write included, is returned by get_keyboard as an error value;           *)
(* acquisition never ends in a fatal abort.                                 *)
C7_AcquisitionNeverAborts ==
    call.op = "get_keyboard" => pc # "panicked" /\ result # "none"

(* C8: every refresh (in a successful acquisition, at the end of every      *)
(* setter) makes exactly one feature-report write attempt, after the state  *)
(* update, of the 33-byte encoding of the complete current state; a failed  *)
(* write is not attempted again.                                            *)
C8_OneFullReportPerRefresh ==
    [][IF pc' \in {"ready", "panicked"}
       THEN /\ nreports' = nreports + 1
            /\ last_report' = Encoding(current_state')
            /\ write_result' \in {"Ok", "Err"}
            /\ call'.op = "get_keyboard" =>
                  last_report' = <<204, 22, 1, 1, 1, 0, 0, 0, 0, 0, 0, 0, 0, 0, 0, 0, 0>>
                                   \o Padding16
       ELSE nreports' = nreports /\ last_report' = last_report]_vars

C8_Witness ==
    /\ call = [op |-> "set_brightness", brightness |-> 2]
    /\ nreports = 3
    /\ write_result = "Err"
    /\ last_report[4] = 4
    /\ last_report[5] = 2

(* C9: when the report write fails in a refresh run by a setter, the flow   *)
(* ends in a panic instead of a normal return, and no state change or       *)
(* report write follows it.                                                 *)
C9_SetterWriteFailureIsFatal ==
    [][/\ (call'.op \in Setters /\ write_result' = "Err") =>
              /\ pc' = "panicked"
              /\ panic' = "Sending feature report failed"
       /\ pc = "panicked" =>
              UNCHANGED <<pc, current_state, nreports, last_report>>]_vars

C9_Witness ==
    /\ call.op = "set_colors_to"
    /\ write_result = "Err"
    /\ pc = "panicked"
    /\ panic = "Sending feature report failed"
    /\ nreports = 2

(* C10: each setter changes only its own field of the lighting state, and   *)
(* build_payload and refresh change none: after acquisition the state is    *)
(* the default one.                                                         *)
C10_Frame ==
    [][/\ call'.op = "set_speed" =>
              /\ current_state'.brightness = current_state.brightness
              /\ current_state'.rgb_values = current_state.rgb_values
       /\ call'.op = "set_brightness" =>
              /\ current_state'.speed = current_state.speed
              /\ current_state'.rgb_values = current_state.rgb_values
       /\ call'.op = "set_colors_to" =>
              /\ current_state'.speed = current_state.speed
              /\ current_state'.brightness = current_state.brightness
       /\ (call'.op = "get_keyboard" /\ pc' \in {"ready", "panicked"}) =>
              current_state' = DefaultState]_vars

C10_Witness ==
    /\ call = [op |-> "set_speed", speed |-> 3]
    /\ current_state = [speed |-> 3, brightness |-> 2,
                        rgb_values |-> <<255, 255, 255, 255, 255, 255,
                                         255, 255, 255, 255, 255, 255>>]

====
